---------------------------- MODULE Spec2Model ----------------------------
(***************************************************************************)
(* A model of lsn, a terminal file-system navigator.                       *)
(*                                                                         *)
(*   - Arena: the generational slot allocator of src/src/arena.rs, driven  *)
(*     by the operation mix of its property test, with the test's          *)
(*     reference HashMap kept beside it (ArenaSpec).                       *)
(*   - The lsn program: the StateManager of lsn-core, the key handling of  *)
(*     lsn-ui and the main loop and projection of lsn, one step per key    *)
(*     event (Spec).                                                       *)
(***************************************************************************)
EXTENDS Integers, Sequences, FiniteSets, TLC

(***************************************************************************)
(* Bounds of the model.                                                    *)
(***************************************************************************)
\* the slot vector is not grown beyond this many slots
MaxSlots == 2
\* a slot is not freed once its generation has reached this
MaxGen == 1

(***************************************************************************)
(* Option<T>: None is the empty tuple, Some(x) the one-element tuple.      *)
(***************************************************************************)
None == <<>>
Some(x) == <<x>>
IsSome(o) == o # None
Unwrap(o) == o[1]

Range(s) == {s[i] : i \in 1..Len(s)}

VARIABLES
    data,        \* Arena.data: the slot vector (slot i of Rust is data[i+1])
    free_slot,   \* Arena.free_slot: Option<usize>, head of the free list
    count,       \* Arena.count
    fault,       \* "none", or the message of the panic that ended the run
    model,       \* the reference map of the property test: handle -> value
    handles,     \* every handle insert has returned
    removed,     \* history: the handles a remove has returned Some for
    freed,       \* history: removed handles whose slot awaits reuse, newest last
    stale_removes, \* history: a handle in removed was presented to remove again
    last         \* the operation just performed, its argument and results

arenaVars == <<data, free_slot, count, fault, model, handles, removed, freed,
               stale_removes, last>>

VARIABLES
    root,         \* StateManager.root
    fs_nodes,     \* StateManager.fs_nodes: path -> FsNode
    selected,     \* Ui.state.selected()
    filter,       \* Ui.filter
    sort,         \* Ui.sort
    input_mode,   \* Ui.input_mode
    view_cache,   \* main's view_cache, as last drawn
    should_exit,  \* main's should_exit
    list_calls,   \* history: how often each directory was listed, up to MaxListCalls
    read_result   \* history: what read_dir returned in the last step, if it was called

vars == <<root, fs_nodes, selected, filter, sort, input_mode, view_cache,
          should_exit, list_calls, read_result>>


\* Arena<T> is generic and never inspects a value: two values tell a value
\* from the one that replaced it.
Values == {"v", "w"}

\* Handle { index, generation }: both fields are public, so any pair can be
\* presented to the arena.
Handle(i, g) == [index |-> i, generation |-> g]
HandleSpace == {Handle(i, g) : i \in 0..MaxSlots, g \in 0..(MaxGen + 1)}

\* The handles the operations are tried with in a state: for every slot each
\* generation up to the one after the slot's own (the handles issued for it so
\* far, the one it would issue next and, when it is occupied, a forged later
\* one), and one handle whose index is past the end of the slot vector.  A
\* handle of a still later generation is treated as the forged one is.
Handles(d) ==
    {h \in HandleSpace :
        \/ h.index < Len(d) /\ h.generation <= d[h.index + 1].generation + 1
        \/ h.index = Len(d) /\ h.generation = 0}

Occupied(v, g) == [tag |-> "Occupied", value |-> v, generation |-> g]
Free(nf, g) == [tag |-> "Free", next_free |-> nf, generation |-> g]

\* The arena as one value, so that the operations are functions of it.
ArenaOf(d, f, c) == [data |-> d, free_slot |-> f, count |-> c]
arena == ArenaOf(data, free_slot, count)

(***************************************************************************)
(* Arena::get                                                              *)
(***************************************************************************)
Get_IgnoreGeneration(a, handle) ==
    IF handle.index >= Len(a.data) THEN None
    ELSE LET slot == a.data[handle.index + 1] IN
         IF slot.tag = "Occupied" THEN Some(slot.value) ELSE None

Get(a, handle) ==
    IF handle.index >= Len(a.data) THEN None
    ELSE LET slot == a.data[handle.index + 1] IN
         IF slot.tag = "Occupied" /\ slot.generation = handle.generation
         THEN Some(slot.value)
         ELSE None

(***************************************************************************)
(* Arena::get_mut: the same test as get; the caller writes through the     *)
(* reference it is given.                                                  *)
(***************************************************************************)
GetMut_IgnoreGeneration(a, handle) ==
    IF handle.index >= Len(a.data) THEN None
    ELSE LET slot == a.data[handle.index + 1] IN
         IF slot.tag = "Occupied" THEN Some(handle.index) ELSE None

GetMut(a, handle) ==
    IF handle.index >= Len(a.data) THEN None
    ELSE LET slot == a.data[handle.index + 1] IN
         IF slot.tag = "Occupied" /\ slot.generation = handle.generation
         THEN Some(handle.index)
         ELSE None

\* *val = new_val on the reference get_mut returned
WriteThrough(a, ref, v) ==
    [a EXCEPT !.data[ref + 1].value = v]

(***************************************************************************)
(* Arena::insert: the arena after the call, the handle returned and the    *)
(* panic raised, if any.                                                   *)
(***************************************************************************)
ArenaInsert_GenerationZero(a, value) ==
    IF IsSome(a.free_slot)
    THEN LET idx == Unwrap(a.free_slot)
             slot == a.data[idx + 1] IN
         IF slot.tag = "Occupied"
         THEN [a |-> a, h |-> None, fault |-> "Corrupt free list"]
         ELSE [a |-> ArenaOf([a.data EXCEPT ![idx + 1] = Occupied(value, 0)],
                             slot.next_free, a.count + 1),
               h |-> Some(Handle(idx, 0)),
               fault |-> "none"]
    ELSE [a |-> ArenaOf(Append(a.data, Occupied(value, 0)), None, a.count + 1),
          h |-> Some(Handle(Len(a.data), 0)),
          fault |-> "none"]

ArenaInsert_StaleFreeHead(a, value) ==
    IF IsSome(a.free_slot)
    THEN LET idx == Unwrap(a.free_slot)
             slot == a.data[idx + 1] IN
         [a |-> ArenaOf([a.data EXCEPT ![idx + 1] =
                             Occupied(value, slot.generation)],
                        a.free_slot, a.count + 1),
          h |-> Some(Handle(idx, slot.generation)),
          fault |-> "none"]
    ELSE [a |-> ArenaOf(Append(a.data, Occupied(value, 0)), None, a.count + 1),
          h |-> Some(Handle(Len(a.data), 0)),
          fault |-> "none"]

ArenaInsert_AlwaysPush(a, value) ==
    [a |-> ArenaOf(Append(a.data, Occupied(value, 0)), a.free_slot, a.count + 1),
     h |-> Some(Handle(Len(a.data), 0)),
     fault |-> "none"]

ArenaInsert(a, value) ==
    IF IsSome(a.free_slot)
    THEN LET idx == Unwrap(a.free_slot)
             slot == a.data[idx + 1] IN
         IF slot.tag = "Occupied"
         THEN [a |-> a, h |-> None, fault |-> "Corrupt free list"]
         ELSE [a |-> ArenaOf([a.data EXCEPT ![idx + 1] =
                                  Occupied(value, slot.generation)],
                             slot.next_free, a.count + 1),
               h |-> Some(Handle(idx, slot.generation)),
               fault |-> "none"]
    ELSE [a |-> ArenaOf(Append(a.data, Occupied(value, 0)), None, a.count + 1),
          h |-> Some(Handle(Len(a.data), 0)),
          fault |-> "none"]

(***************************************************************************)
(* Arena::remove: the arena after the call, the value returned and the     *)
(* panic raised, if any.                                                   *)
(***************************************************************************)
ArenaRemove_SameGeneration(a, handle) ==
    IF Get(a, handle) = None
    THEN [a |-> a, res |-> None, fault |-> "none"]
    ELSE LET old_slot == a.data[handle.index + 1] IN
         [a |-> ArenaOf([a.data EXCEPT ![handle.index + 1] =
                             Free(a.free_slot, handle.generation)],
                        Some(handle.index), a.count - 1),
          res |-> Some(old_slot.value),
          fault |-> "none"]

ArenaRemove_GenerationOnly(a, handle) ==
    IF \/ handle.index >= Len(a.data)
       \/ a.data[handle.index + 1].generation # handle.generation
    THEN [a |-> a, res |-> None, fault |-> "none"]
    ELSE LET old_slot == a.data[handle.index + 1] IN
         [a |-> ArenaOf([a.data EXCEPT ![handle.index + 1] =
                             Free(a.free_slot, handle.generation + 1)],
                        Some(handle.index), a.count - 1),
          res |-> IF old_slot.tag = "Occupied" THEN Some(old_slot.value) ELSE None,
          fault |-> IF old_slot.tag = "Occupied" THEN "none" ELSE "should not happen"]

ArenaRemove_Unchecked(a, handle) ==
    IF handle.index >= Len(a.data)
    THEN [a |-> a, res |-> None, fault |-> "none"]
    ELSE LET old_slot == a.data[handle.index + 1] IN
         [a |-> ArenaOf([a.data EXCEPT ![handle.index + 1] =
                             Free(a.free_slot, handle.generation + 1)],
                        Some(handle.index), a.count - 1),
          res |-> IF old_slot.tag = "Occupied" THEN Some(old_slot.value) ELSE None,
          fault |-> IF old_slot.tag = "Occupied" THEN "none" ELSE "should not happen"]

\* remove that does not link the freed slot to the previous head
ArenaRemove_NoLink(a, handle) ==
    IF Get(a, handle) = None
    THEN [a |-> a, res |-> None, fault |-> "none"]
    ELSE LET old_slot == a.data[handle.index + 1] IN
         [a |-> ArenaOf([a.data EXCEPT ![handle.index + 1] =
                             Free(None, handle.generation + 1)],
                        Some(handle.index), a.count - 1),
          res |-> IF old_slot.tag = "Occupied" THEN Some(old_slot.value) ELSE None,
          fault |-> IF old_slot.tag = "Occupied" THEN "none" ELSE "should not happen"]

ArenaRemove(a, handle) ==
    IF Get(a, handle) = None
    THEN [a |-> a, res |-> None, fault |-> "none"]
    ELSE LET old_slot == a.data[handle.index + 1] IN
         [a |-> ArenaOf([a.data EXCEPT ![handle.index + 1] =
                             Free(a.free_slot, handle.generation + 1)],
                        Some(handle.index), a.count - 1),
          res |-> IF old_slot.tag = "Occupied" THEN Some(old_slot.value) ELSE None,
          fault |-> IF old_slot.tag = "Occupied" THEN "none" ELSE "should not happen"]

(***************************************************************************)
(* The reference model of the property test: a map keyed by handle.        *)
(***************************************************************************)
ModelGet(m, handle) == IF handle \in DOMAIN m THEN Some(m[handle]) ELSE None
ModelInsert(m, handle, v) ==
    [k \in (DOMAIN m) \cup {handle} |-> IF k = handle THEN v ELSE m[k]]
ModelRemove(m, handle) == [k \in (DOMAIN m) \ {handle} |-> m[k]]
ModelWrite(m, handle, v) ==
    IF handle \in DOMAIN m THEN [m EXCEPT ![handle] = v] ELSE m

\* The operation just performed: its name, the handle it was given (insert: the
\* handle it returned), the value it was given and the value the arena returned.
Op(op, h, val, res) == [op |-> op, h |-> h, val |-> val, res |-> res]

\* Both state machines, for the subscripts of the specifications
allVars == <<arenaVars, vars>>

\* The file browser is not running (the arena is exercised on its own)
NotStarted ==
    /\ root = None
    /\ fs_nodes = None
    /\ selected = None
    /\ filter = None
    /\ sort = None
    /\ input_mode = None
    /\ view_cache = None
    /\ should_exit = FALSE
    /\ list_calls = None
    /\ read_result = None

\* Arena::new, and the empty map and handle list of the property test
ArenaNew ==
    /\ data = <<>>
    /\ free_slot = None
    /\ count = 0
    /\ fault = "none"
    /\ model = <<>>
    /\ handles = {}
    /\ removed = {}
    /\ freed = <<>>
    /\ stale_removes = FALSE
    /\ last = Op("new", None, None, None)

InitArena == ArenaNew /\ NotStarted

\* Action::Insert(val)
Insert(v) ==
    /\ fault = "none"
    /\ IsSome(free_slot) \/ Len(data) < MaxSlots
    /\ LET r == ArenaInsert(arena, v) IN
       /\ data' = r.a.data
       /\ free_slot' = r.a.free_slot
       /\ count' = r.a.count
       /\ fault' = r.fault
       /\ IF r.fault = "none"
          THEN /\ model' = ModelInsert(model, Unwrap(r.h), v)
               /\ handles' = handles \cup {Unwrap(r.h)}
          ELSE UNCHANGED <<model, handles>>
       /\ freed' = IF freed = <<>> THEN freed ELSE SubSeq(freed, 1, Len(freed) - 1)
       /\ last' = Op("insert", r.h, Some(v), None)
    /\ UNCHANGED <<removed, stale_removes>>
    /\ UNCHANGED vars

\* Action::Remove: arena.remove(handle) beside model.remove(&handle)
Remove(h) ==
    /\ fault = "none"
    /\ h.generation < MaxGen \/ Get(arena, h) = None
    /\ LET r == ArenaRemove(arena, h) IN
       /\ data' = r.a.data
       /\ free_slot' = r.a.free_slot
       /\ count' = r.a.count
       /\ fault' = r.fault
       /\ model' = ModelRemove(model, h)
       /\ removed' = IF IsSome(r.res) THEN removed \cup {h} ELSE removed
       /\ freed' = IF IsSome(r.res) THEN Append(freed, h) ELSE freed
       /\ stale_removes' = (stale_removes \/ h \in removed)
       /\ last' = Op("remove", Some(h), None, r.res)
    /\ UNCHANGED handles
    /\ UNCHANGED vars

\* Action::Get and Action::GetInvalid: arena.get(&handle)
GetOp(h) ==
    /\ fault = "none"
    /\ last' = Op("get", Some(h), None, Get(arena, h))
    /\ UNCHANGED <<data, free_slot, count, fault, model, handles, removed, freed,
                   stale_removes>>
    /\ UNCHANGED vars

\* Action::GetMut(idx, new_val): *val = new_val through get_mut, on the arena
\* and on the map
GetMutOp(h, v) ==
    /\ fault = "none"
    /\ LET ref == GetMut(arena, h)
           a2 == IF IsSome(ref) THEN WriteThrough(arena, Unwrap(ref), v) ELSE arena
       IN /\ data' = a2.data
          /\ free_slot' = a2.free_slot
          /\ count' = a2.count
    /\ model' = ModelWrite(model, h, v)
    /\ last' = Op("get_mut", Some(h), Some(v), None)
    /\ UNCHANGED <<fault, handles, removed, freed, stale_removes>>
    /\ UNCHANGED vars

NextArena ==
    \/ \E v \in Values : Insert(v)
    \/ \E h \in Handles(data) : Remove(h)
    \/ \E h \in Handles(data) : GetOp(h)
    \/ \E h \in Handles(data), v \in Values : GetMutOp(h, v)

ArenaSpec == InitArena /\ [][NextArena]_allVars

(***************************************************************************)
(* Properties of the arena.                                                *)
(***************************************************************************)
\* the handles that currently designate a value
LiveHandles(a) ==
    {Handle(i - 1, a.data[i].generation) :
        i \in {j \in 1..Len(a.data) : a.data[j].tag = "Occupied"}}

\* the handle of the operation just performed
lastH == Unwrap(last.h)

\* C1: a handle that was successfully removed gets None from get, get_mut and
\* remove in every later state, also once its index holds another value.
C1_RemovedStaysDead ==
    /\ \A h \in removed :
        /\ Get(arena, h) = None
        /\ GetMut(arena, h) = None
        /\ ArenaRemove(arena, h).res = None
    /\ (last.op = "get" /\ lastH \in removed) => last.res = None

\* get was given a removed handle whose index holds another value by now
C1_Witness ==
    /\ last.op = "get"
    /\ lastH \in removed
    /\ lastH.index < Len(data)
    /\ data[lastH.index + 1].tag = "Occupied"

\* C2: the arena answers as the map keyed by handle does: get of every handle,
\* issued or forged, and what remove, get and the read after a get_mut write
\* have just returned.
C2_MatchesMap ==
    [][ /\ \A h \in HandleSpace : Get(arena', h) = ModelGet(model', h)
        /\ last'.op = "remove" => last'.res = ModelGet(model, Unwrap(last'.h))
        /\ last'.op = "get" => last'.res = ModelGet(model', Unwrap(last'.h))
        /\ count' = Cardinality(DOMAIN model')
      ]_arenaVars

\* a forged handle naming an occupied, reused slot was looked up
C2_Witness ==
    /\ last.op = "get"
    /\ lastH \notin handles
    /\ lastH.index < Len(data)
    /\ data[lastH.index + 1].tag = "Occupied"
    /\ data[lastH.index + 1].generation > 0
    /\ Cardinality(DOMAIN model) >= 2

\* C3: get of the handle insert returns yields the inserted value, and a live
\* handle keeps its value (or the one written through get_mut) over every
\* step other than its own removal.
C3_InsertThenGet ==
    [][ /\ (last'.op = "insert" =>
               /\ IsSome(last'.h)
               /\ Get(arena', Unwrap(last'.h)) = last'.val)
        /\ \A h \in LiveHandles(arena) :
               ~(last'.op = "remove" /\ last'.h = Some(h)) =>
                   Get(arena', h) =
                       IF last'.op = "get_mut" /\ last'.h = Some(h)
                       THEN last'.val
                       ELSE Get(arena, h)
      ]_arenaVars

\* an insert reused a slot while another handle was live
C3_Witness ==
    /\ last.op = "insert"
    /\ lastH.generation > 0
    /\ Cardinality(LiveHandles(arena)) >= 2

\* C4: remove of an already removed handle returns None and changes neither
\* the slots, the free list nor the count; an insert after it returns a handle
\* that yields the inserted value and disturbs no live handle.
C4_DoubleRemove ==
    [][ /\ (last'.op = "remove" /\ Unwrap(last'.h) \in removed) =>
               /\ last'.res = None
               /\ fault' = "none"
               /\ UNCHANGED <<data, free_slot, count>>
        /\ (stale_removes /\ last'.op = "insert") =>
               /\ IsSome(last'.h)
               /\ Unwrap(last'.h) \notin LiveHandles(arena)
               /\ Get(arena', Unwrap(last'.h)) = last'.val
               /\ \A h \in LiveHandles(arena) : Get(arena', h) = Get(arena, h)
      ]_arenaVars

\* an insert that reused the slot of a handle that was removed twice
C4_Witness ==
    /\ stale_removes
    /\ last.op = "insert"
    /\ \E h \in removed : h.index = lastH.index
    /\ Cardinality(LiveHandles(arena)) >= 2

\* C5: insert succeeds, and the handle it returns is none of the live handles
\* and none of the handles returned before.
C5_HandlesUnique ==
    [][ last'.op = "insert" =>
           /\ fault' = "none"
           /\ IsSome(last'.h)
           /\ Unwrap(last'.h) \notin LiveHandles(arena)
           /\ Unwrap(last'.h) \notin handles
           /\ handles' = handles \cup {Unwrap(last'.h)}
      ]_arenaVars

\* every index has been handed out twice
C5_Witness ==
    /\ last.op = "insert"
    /\ Len(data) = MaxSlots
    /\ \A i \in 0..(Len(data) - 1) : Cardinality({h \in handles : h.index = i}) >= 2
    /\ Cardinality(LiveHandles(arena)) >= 2

\* C6: freed slots are reused newest first, each with the removed handle's
\* generation plus one, and the slot vector grows only when none is free.
C6_LifoReuse ==
    [][ last'.op = "insert" =>
           IF freed # <<>>
           THEN /\ Unwrap(last'.h).index = freed[Len(freed)].index
                /\ Unwrap(last'.h).generation = freed[Len(freed)].generation + 1
                /\ Len(data') = Len(data)
                /\ freed' = SubSeq(freed, 1, Len(freed) - 1)
           ELSE /\ free_slot = None
                /\ Unwrap(last'.h) = Handle(Len(data), 0)
                /\ Len(data') = Len(data) + 1
      ]_arenaVars

\* two slots were freed with no insert between, and the newer was reused first
C6_Witness ==
    /\ last.op = "insert"
    /\ Cardinality(handles) = 3
    /\ Len(freed) = 1
    /\ lastH.generation = 1
    /\ freed[1].index # lastH.index

\* a handle the arena does not hold: index out of range, slot Free, or another
\* generation
Invalid(a, h) ==
    \/ h.index >= Len(a.data)
    \/ a.data[h.index + 1].tag = "Free"
    \/ a.data[h.index + 1].generation # h.generation

\* C7: remove of an invalid handle returns None, raises nothing and changes
\* neither the slots, the free-list head nor the count.
C7_RemoveInvalidNoop ==
    [][ (last'.op = "remove" /\ Invalid(arena, Unwrap(last'.h))) =>
           /\ last'.res = None
           /\ fault' = "none"
           /\ UNCHANGED <<data, free_slot, count>>
      ]_arenaVars

\* remove was given a never-issued handle naming a Free slot at its generation
C7_Witness ==
    /\ last.op = "remove"
    /\ last.res = None
    /\ lastH \notin handles
    /\ lastH.index < Len(data)
    /\ data[lastH.index + 1].tag = "Free"
    /\ data[lastH.index + 1].generation = lastH.generation

\* C8: a write through get_mut on a live handle changes the value of that
\* handle alone; on any other handle it changes nothing.
C8_GetMutFrame ==
    [][ last'.op = "get_mut" =>
           LET h == Unwrap(last'.h) IN
           IF IsSome(Get(arena, h))
           THEN /\ Get(arena', h) = last'.val
                /\ \A g \in HandleSpace \ {h} : Get(arena', g) = Get(arena, g)
                /\ UNCHANGED <<free_slot, count>>
                /\ Len(data') = Len(data)
           ELSE UNCHANGED <<data, free_slot, count>>
      ]_arenaVars

\* a write through a live handle whose slot has had earlier occupants, beside
\* another live handle that holds another value
C8_Witness ==
    /\ last.op = "get_mut"
    /\ Get(arena, lastH) = last.val
    /\ \E h \in removed : h.index = lastH.index
    /\ \E g \in LiveHandles(arena) : g # lastH /\ Get(arena, g) # last.val

\* a write attempted through a removed handle whose index is occupied again
C8_WitnessStale ==
    /\ last.op = "get_mut"
    /\ lastH \in removed
    /\ data[lastH.index + 1].tag = "Occupied"


(***************************************************************************)
(***************************************************************************)
(* The lsn program.                                                        *)
(***************************************************************************)
(***************************************************************************)

\* a directory's listing is counted up to this many calls
MaxListCalls == 2

(***************************************************************************)
(* Paths.  A file name is the sequence of its bytes, a path the sequence   *)
(* of its components; the root is the one-component path of the working    *)
(* directory, whose own parent is not part of the tree.                    *)
(***************************************************************************)
Dot == 46

n_r == <<114>>                              \* "r"
n_dot_r == <<46, 114>>                      \* ".r"
n_a == <<97>>                               \* "a"
n_x_txt == <<120, 46, 116, 120, 116>>       \* "x.txt"
n_hidden == <<46, 104, 105, 100, 100, 101, 110>>   \* ".hidden"
n_b_txt == <<98, 46, 116, 120, 116>>        \* "b.txt"
n_c == <<46, 99>>                           \* ".c"
n_y == <<121>>                              \* "y"

\* The file system the program is run in: the entries a directory can list
\* and the kind the probe reports for a path.
RootPath == <<n_r>>
\* The directories the program can be started in, and a StateManager rooted
\* at: one with a plain name and one with a dot name.
Roots == {<<n_r>>, <<n_dot_r>>}
\* "r" holds the directory a (with the file x.txt) and the files .hidden and
\* b.txt; ".r" holds the same and the directory .c (with the file y).
FsEntries(path) ==
    IF Len(path) = 1
    THEN (IF path[1] = n_r THEN {n_a, n_hidden, n_b_txt}
          ELSE {n_a, n_c, n_hidden, n_b_txt})
    ELSE IF Len(path) = 2 /\ path[2] = n_a THEN {n_x_txt}
    ELSE IF Len(path) = 2 /\ path[2] = n_c THEN {n_y}
    ELSE {}
FsDirs == {<<n_r>>, <<n_r, n_a>>, <<n_dot_r>>, <<n_dot_r, n_a>>, <<n_dot_r, n_c>>}
AllPaths ==
    UNION {{r} \cup {Append(r, n) : n \in FsEntries(r)}
               \cup UNION {{Append(Append(r, d), n) : n \in FsEntries(Append(r, d))} :
                           d \in FsEntries(r)} :
           r \in Roots}

\* Path::is_dir
IsDir(path) == path \in FsDirs

\* Path::join of a directory and an entry name
Join(path, name) == Append(path, name)

\* Path::parent
Parent(path) == IF Len(path) = 0 THEN None ELSE Some(SubSeq(path, 1, Len(path) - 1))

\* Path::file_name
FileName(path) == IF Len(path) = 0 THEN <<>> ELSE path[Len(path)]

\* str::starts_with('.')
StartsWithDot(name) == Len(name) > 0 /\ name[1] = Dot

\* byte-wise lexicographic order of two names: -1, 0 or 1
RECURSIVE CmpBytes(_, _)
CmpBytes(a, b) ==
    IF a = <<>> /\ b = <<>> THEN 0
    ELSE IF a = <<>> THEN -1
    ELSE IF b = <<>> THEN 1
    ELSE IF a[1] < b[1] THEN -1
    ELSE IF a[1] > b[1] THEN 1
    ELSE CmpBytes(Tail(a), Tail(b))

\* Path::cmp: component by component
RECURSIVE CmpPath(_, _)
CmpPath(p, q) ==
    IF p = <<>> /\ q = <<>> THEN 0
    ELSE IF p = <<>> THEN -1
    ELSE IF q = <<>> THEN 1
    ELSE LET c == CmpBytes(p[1], q[1]) IN
         IF c # 0 THEN c ELSE CmpPath(Tail(p), Tail(q))

\* bool::cmp, false before true: -1, 0 or 1
CmpBool(x, y) == IF x = y THEN 0 ELSE IF y THEN -1 ELSE 1

\* Ordering::then_with
ThenWith(c, d) == IF c # 0 THEN c ELSE d

\* the comparison turned round: descending paths in every mode
Compare_Reversed(mode, nodes, a_path, b_path) ==
    LET a_is_dir == nodes[a_path].kind = "Directory"
        b_is_dir == nodes[b_path].kind = "Directory"
    IN CASE mode = "Directory" ->
                ThenWith(CmpBool(b_is_dir, a_is_dir), CmpPath(b_path, a_path))
         [] mode = "File" ->
                ThenWith(CmpBool(a_is_dir, b_is_dir), CmpPath(b_path, a_path))
         [] OTHER -> CmpPath(b_path, a_path)

\* the comparison putting open directories before everything else
Compare_OpenFirst(mode, nodes, a_path, b_path) ==
    LET a_open == nodes[a_path].kind = "Directory" /\ nodes[a_path].is_open
        b_open == nodes[b_path].kind = "Directory" /\ nodes[b_path].is_open
    IN IF a_open /\ ~b_open THEN -1
       ELSE IF b_open /\ ~a_open THEN 1
       ELSE CmpPath(a_path, b_path)

\* the comparison blind to the kind: ascending paths in every mode
Compare_KindBlind(mode, nodes, a_path, b_path) == CmpPath(a_path, b_path)

\* The comparison sort_children hands to sort_by for each Sort mode; "Path" is
\* the plain order of paths that Vec::sort uses.
Compare(mode, nodes, a_path, b_path) ==
    LET a_is_dir == nodes[a_path].kind = "Directory"
        b_is_dir == nodes[b_path].kind = "Directory"
    IN CASE mode = "Directory" ->
                ThenWith(CmpBool(b_is_dir, a_is_dir), CmpPath(a_path, b_path))
         [] mode = "File" ->
                ThenWith(CmpBool(a_is_dir, b_is_dir), CmpPath(a_path, b_path))
         [] OTHER -> CmpPath(a_path, b_path)

\* slice::sort_by: a stable insertion sort under the comparison
RECURSIVE InsertSorted(_, _, _, _)
InsertSorted(s, x, mode, nodes) ==
    IF s = <<>> THEN <<x>>
    ELSE IF Compare(mode, nodes, x, s[Len(s)]) >= 0 THEN Append(s, x)
    ELSE Append(InsertSorted(SubSeq(s, 1, Len(s) - 1), x, mode, nodes), s[Len(s)])

RECURSIVE SortBy(_, _, _)
SortBy(s, mode, nodes) ==
    IF s = <<>> THEN <<>>
    ELSE InsertSorted(SortBy(SubSeq(s, 1, Len(s) - 1), mode, nodes),
                      s[Len(s)], mode, nodes)

\* some enumeration of a set, the order read_dir happens to return
RECURSIVE SetToSeq(_)
SetToSeq(S) ==
    IF S = {} THEN <<>>
    ELSE LET x == CHOOSE y \in S : TRUE IN <<x>> \o SetToSeq(S \ {x})

(***************************************************************************)
(* lsn-core: FsNode, FsNodeKind and StateManager.                          *)
(***************************************************************************)
Directory(path, children, is_open) ==
    [path |-> path, kind |-> "Directory", children |-> children, is_open |-> is_open]
File(path) == [path |-> path, kind |-> "File"]

\* HashMap::insert
MapInsert(m, k, v) == [x \in (DOMAIN m) \cup {k} |-> IF x = k THEN v ELSE m[x]]

\* add_path that stores the node under its path but with the bare name in it
add_path_NameOnly(nodes, path) ==
    MapInsert(nodes, path,
              IF IsDir(path) THEN Directory(<<FileName(path)>>, <<>>, FALSE)
              ELSE File(<<FileName(path)>>))

\* StateManager::add_path
add_path(nodes, path) ==
    MapInsert(nodes, path,
              IF IsDir(path) THEN Directory(path, <<>>, FALSE) ELSE File(path))

\* The result of fs::read_dir: Err, or Ok with the set of entry names.
Err == [ok |-> FALSE]
Ok(names) == [ok |-> TRUE, names |-> names]
\* What a listing of `path` can return: an error, nothing, or its entries.
Listings(path) == {Err, Ok({}), Ok(FsEntries(path))}

RECURSIVE AddPaths(_, _)
AddPaths(nodes, paths) ==
    IF paths = <<>> THEN nodes
    ELSE AddPaths(add_path(nodes, paths[1]), Tail(paths))

\* load_dir pushing every entry twice onto child_paths
load_dir_entries_PushesTwice(nodes, path, entries) ==
    LET added == AddPaths(nodes, entries)
        child_paths == SortBy(entries \o entries, "Path", added)
    IN IF path \in DOMAIN added /\ added[path].kind = "Directory"
       THEN [added EXCEPT ![path].children = child_paths]
       ELSE added

\* load_dir building the map anew from the listed directory and its entries
load_dir_entries_FreshMap(nodes, path, entries) ==
    LET kept == [q \in (DOMAIN nodes) \cap {path} |-> nodes[q]]
        added == AddPaths(kept, entries)
        child_paths == SortBy(entries, "Path", added)
    IN IF path \in DOMAIN added /\ added[path].kind = "Directory"
       THEN [added EXCEPT ![path].children = child_paths]
       ELSE added

\* StateManager::load_dir past read_dir: the entries, in the order read_dir
\* yields them, are added and pushed, then sorted and stored in the parent
load_dir_entries(nodes, path, entries) ==
    LET added == AddPaths(nodes, entries)
        child_paths == SortBy(entries, "Path", added)
    IN IF path \in DOMAIN added /\ added[path].kind = "Directory"
       THEN [added EXCEPT ![path].children = child_paths]
       ELSE added

\* StateManager::load_dir, given what read_dir returns
load_dir(nodes, path, listing) ==
    IF ~listing.ok THEN nodes
    ELSE load_dir_entries(nodes, path, SetToSeq({Join(path, n) : n \in listing.names}))

\* toggle_open that opens whatever the flag was
toggle_open_Opens(nodes, path) ==
    IF path \in DOMAIN nodes /\ nodes[path].kind = "Directory"
    THEN [nodes EXCEPT ![path].is_open = TRUE]
    ELSE nodes

\* StateManager::toggle_open
toggle_open(nodes, path) ==
    IF path \in DOMAIN nodes /\ nodes[path].kind = "Directory"
    THEN [nodes EXCEPT ![path].is_open = ~nodes[path].is_open]
    ELSE nodes

\* set_open writing the flag of every directory of the tree
set_open_Everywhere(nodes, path, open) ==
    IF path \in DOMAIN nodes /\ nodes[path].kind = "Directory"
    THEN [q \in DOMAIN nodes |->
             IF nodes[q].kind = "Directory" THEN [nodes[q] EXCEPT !.is_open = open]
             ELSE nodes[q]]
    ELSE nodes

\* set_open that forgets the children of the directory it closes
set_open_DropsChildren(nodes, path, open) ==
    IF path \in DOMAIN nodes /\ nodes[path].kind = "Directory"
    THEN [nodes EXCEPT ![path].is_open = open,
                       ![path].children = IF open THEN @ ELSE <<>>]
    ELSE nodes

\* StateManager::set_open
set_open(nodes, path, open) ==
    IF path \in DOMAIN nodes /\ nodes[path].kind = "Directory"
    THEN [nodes EXCEPT ![path].is_open = open]
    ELSE nodes

\* StateManager::get_entry
get_entry(nodes, path) == IF path \in DOMAIN nodes THEN Some(nodes[path]) ELSE None

\* StateManager::new
NewStateManager(root_path) == add_path(<<>>, root_path)

(***************************************************************************)
(* lsn-ui: ViewItem, Filter, Sort, and the key handling of Ui.             *)
(***************************************************************************)
DirectoryItem(is_open) == [tag |-> "Directory", is_open |-> is_open]
FileItem == [tag |-> "File"]
ViewItem(name, path, kind, depth) ==
    [name |-> name, path |-> path, kind |-> kind, depth |-> depth]

Filter(directories, files, dotfiles) ==
    [directories |-> directories, files |-> files, dotfiles |-> dotfiles]
\* Filter::default, Sort::default
DefaultFilter == Filter(FALSE, FALSE, FALSE)
DefaultSort == "Directory"
Sorts == {"Directory", "File", "Alphabetical"}

\* usize::MAX, which select_last stores; any index past every view will do
UsizeMax == 1000000

\* The Ui struct: ListState::selected, sort, filter, input_mode
UiOf(sel, srt, flt, mode) ==
    [selected |-> sel, sort |-> srt, filter |-> flt, input_mode |-> mode]

\* Ui::new
NewUi == UiOf(Some(0), DefaultSort, DefaultFilter, "Normal")

\* ListState::select_next, select_previous, select_first, select_last
select_next(sel) == Some(IF IsSome(sel) THEN Unwrap(sel) + 1 ELSE 0)
select_previous(sel) ==
    Some(IF IsSome(sel)
         THEN (IF Unwrap(sel) = 0 THEN 0 ELSE Unwrap(sel) - 1)
         ELSE UsizeMax)
select_first(sel) == Some(0)
select_last(sel) == Some(UsizeMax)

\* The keys handle_key tells apart (q stands for q and Esc, h for h and Left,
\* j for j and Down, k for k and Up, l for l, Right and Enter; "other" for any
\* other key).
Keys == {"q", "h", "j", "k", "g", "G", "l", "f", "d", ".", "other"}

\* handle_key whose filter-key mode also takes the Normal-mode q
handle_key_QuitsInFilterMode(u, key) ==
    IF u.input_mode = "Normal"
    THEN CASE key = "q" -> [ui |-> u, action |-> Some("Quit")]
           [] key = "h" -> [ui |-> u, action |-> Some("CloseNearest")]
           [] key = "j" -> [ui |-> [u EXCEPT !.selected = select_next(u.selected)],
                            action |-> Some("NavigateDown")]
           [] key = "k" -> [ui |-> [u EXCEPT !.selected = select_previous(u.selected)],
                            action |-> Some("NavigateUp")]
           [] key = "g" -> [ui |-> [u EXCEPT !.selected = select_first(u.selected)],
                            action |-> Some("NavigateTop")]
           [] key = "G" -> [ui |-> [u EXCEPT !.selected = select_last(u.selected)],
                            action |-> Some("NavigateBottom")]
           [] key = "l" -> [ui |-> u, action |-> Some("ToggleFolder")]
           [] key = "f" -> [ui |-> [u EXCEPT !.input_mode = "FilterKey"],
                            action |-> None]
           [] OTHER -> [ui |-> u, action |-> None]
    ELSE LET r == CASE key = "d" ->
                         [ui |-> [u EXCEPT !.filter.directories = ~u.filter.directories],
                          action |-> Some("ToggleFilterDirectory")]
                    [] key = "f" ->
                         [ui |-> [u EXCEPT !.filter.files = ~u.filter.files],
                          action |-> Some("ToggleFilterFile")]
                    [] key = "." ->
                         [ui |-> [u EXCEPT !.filter.dotfiles = ~u.filter.dotfiles],
                          action |-> Some("ToggleFilterDotfile")]
                    [] key = "q" -> [ui |-> u, action |-> Some("Quit")]
                    [] OTHER -> [ui |-> u, action |-> None]
         IN [ui |-> [r.ui EXCEPT !.input_mode = "Normal"], action |-> r.action]

\* Ui::handle_key for a key press: the Ui afterwards and the Action returned
handle_key(u, key) ==
    IF u.input_mode = "Normal"
    THEN CASE key = "q" -> [ui |-> u, action |-> Some("Quit")]
           [] key = "h" -> [ui |-> u, action |-> Some("CloseNearest")]
           [] key = "j" -> [ui |-> [u EXCEPT !.selected = select_next(u.selected)],
                            action |-> Some("NavigateDown")]
           [] key = "k" -> [ui |-> [u EXCEPT !.selected = select_previous(u.selected)],
                            action |-> Some("NavigateUp")]
           [] key = "g" -> [ui |-> [u EXCEPT !.selected = select_first(u.selected)],
                            action |-> Some("NavigateTop")]
           [] key = "G" -> [ui |-> [u EXCEPT !.selected = select_last(u.selected)],
                            action |-> Some("NavigateBottom")]
           [] key = "l" -> [ui |-> u, action |-> Some("ToggleFolder")]
           [] key = "f" -> [ui |-> [u EXCEPT !.input_mode = "FilterKey"],
                            action |-> None]
           [] OTHER -> [ui |-> u, action |-> None]
    ELSE LET r == CASE key = "d" ->
                         [ui |-> [u EXCEPT !.filter.directories = ~u.filter.directories],
                          action |-> Some("ToggleFilterDirectory")]
                    [] key = "f" ->
                         [ui |-> [u EXCEPT !.filter.files = ~u.filter.files],
                          action |-> Some("ToggleFilterFile")]
                    [] key = "." ->
                         [ui |-> [u EXCEPT !.filter.dotfiles = ~u.filter.dotfiles],
                          action |-> Some("ToggleFilterDotfile")]
                    [] OTHER -> [ui |-> u, action |-> None]
         IN [ui |-> [r.ui EXCEPT !.input_mode = "Normal"], action |-> r.action]

\* The List widget's render: a selection past the end moves to the last item,
\* and an empty list has none.
render_list(sel, items) ==
    IF Len(items) = 0 THEN None
    ELSE IF IsSome(sel) /\ Unwrap(sel) >= Len(items) THEN Some(Len(items) - 1)
    ELSE sel

(***************************************************************************)
(* lsn: the projection of the tree into the view.                          *)
(***************************************************************************)
\* should_display with a dotfile filter that hides files only
should_display_DotFilesOnly(path, nodes, flt) ==
    IF path \notin DOMAIN nodes THEN FALSE
    ELSE LET entry == nodes[path] IN
         IF flt.dotfiles /\ StartsWithDot(FileName(path)) /\ entry.kind = "File" THEN FALSE
         ELSE IF entry.kind = "File" /\ flt.files THEN FALSE
         ELSE IF entry.kind = "Directory" /\ ~entry.is_open /\ flt.directories THEN FALSE
         ELSE TRUE

\* should_display with a directory filter that hides open directories too
should_display_HidesOpenDirs(path, nodes, flt) ==
    IF path \notin DOMAIN nodes THEN FALSE
    ELSE IF flt.dotfiles /\ StartsWithDot(FileName(path)) THEN FALSE
    ELSE LET entry == nodes[path] IN
         IF entry.kind = "File" /\ flt.files THEN FALSE
         ELSE IF entry.kind = "Directory" /\ flt.directories THEN FALSE
         ELSE TRUE

\* should_display
should_display(path, nodes, flt) ==
    IF path \notin DOMAIN nodes THEN FALSE
    ELSE IF flt.dotfiles /\ StartsWithDot(FileName(path)) THEN FALSE
    ELSE LET entry == nodes[path] IN
         IF entry.kind = "File" /\ flt.files THEN FALSE
         ELSE IF entry.kind = "Directory" /\ ~entry.is_open /\ flt.directories THEN FALSE
         ELSE TRUE

\* sort_children losing the files when directories go first
sort_children_DropsFiles(children, nodes, srt) ==
    IF srt = "Directory"
    THEN SortBy(SelectSeq(children, LAMBDA c : nodes[c].kind = "Directory"), srt, nodes)
    ELSE SortBy(children, srt, nodes)

\* sort_children putting directories first whatever the sort is
sort_children_AlwaysDirectoriesFirst(children, nodes, srt) ==
    SortBy(children, "Directory", nodes)

\* sort_children leaving the children in their stored order
sort_children_Unsorted(children, nodes, srt) == children

\* sort_children
sort_children(children, nodes, srt) == SortBy(children, srt, nodes)

\* process_current_entry pushing every item with depth 0
process_current_entry_DepthZero(path, depth, nodes) ==
    LET entry == nodes[path] IN
    ViewItem(FileName(entry.path), entry.path,
             IF entry.kind = "Directory" THEN DirectoryItem(entry.is_open) ELSE FileItem,
             0)

\* process_current_entry: the item pushed for an entry
process_current_entry(path, depth, nodes) ==
    LET entry == nodes[path] IN
    ViewItem(FileName(entry.path), entry.path,
             IF entry.kind = "Directory" THEN DirectoryItem(entry.is_open) ELSE FileItem,
             depth)

\* collect_recursive: the items pushed for `current_path` and below, and
\* (CollectChildren) its loop over the sorted children
RECURSIVE collect_recursive(_, _, _, _, _)
RECURSIVE CollectChildren(_, _, _, _, _)
\* collect_recursive descending into closed directories as well
collect_recursive_IntoClosed(current_path, depth, nodes, flt, srt) ==
    IF current_path \notin DOMAIN nodes THEN <<>>
    ELSE LET entry == nodes[current_path]
             item == process_current_entry(current_path, depth, nodes)
         IN IF entry.kind = "Directory"
            THEN <<item>> \o CollectChildren(sort_children(entry.children, nodes, srt),
                                             depth, nodes, flt, srt)
            ELSE <<item>>

collect_recursive(current_path, depth, nodes, flt, srt) ==
    IF current_path \notin DOMAIN nodes THEN <<>>
    ELSE LET entry == nodes[current_path]
             item == process_current_entry(current_path, depth, nodes)
         IN IF entry.kind = "Directory" /\ entry.is_open
            THEN <<item>> \o CollectChildren(sort_children(entry.children, nodes, srt),
                                             depth, nodes, flt, srt)
            ELSE <<item>>

\* the loop dropping only the item of a child that fails the filter, and still
\* visiting what is below it
CollectChildren_SkipsItemOnly(children, depth, nodes, flt, srt) ==
    IF children = <<>> THEN <<>>
    ELSE LET sub == collect_recursive(children[1], depth + 1, nodes, flt, srt) IN
         (IF should_display(children[1], nodes, flt) \/ sub = <<>>
          THEN sub ELSE Tail(sub))
         \o CollectChildren(Tail(children), depth, nodes, flt, srt)

CollectChildren(children, depth, nodes, flt, srt) ==
    IF children = <<>> THEN <<>>
    ELSE (IF should_display(children[1], nodes, flt)
          THEN collect_recursive(children[1], depth + 1, nodes, flt, srt)
          ELSE <<>>)
         \o CollectChildren(Tail(children), depth, nodes, flt, srt)

\* state_to_view putting the root through the filter like any child
state_to_view_FiltersRoot(nodes, root_path, flt, srt) ==
    IF should_display(root_path, nodes, flt)
    THEN collect_recursive(root_path, 0, nodes, flt, srt)
    ELSE <<>>

\* state_to_view without the item of the root
state_to_view_ChildrenOnly(nodes, root_path, flt, srt) ==
    Tail(collect_recursive(root_path, 0, nodes, flt, srt))

\* state_to_view
state_to_view(nodes, root_path, flt, srt) ==
    collect_recursive(root_path, 0, nodes, flt, srt)

(***************************************************************************)
(* lsn: the commands of the main loop.                                     *)
(***************************************************************************)
\* Vec::get answering an index past the end with the last element
VecGet_Clamps(v, i) ==
    IF v = <<>> THEN None
    ELSE IF i < Len(v) THEN Some(v[i + 1]) ELSE Some(v[Len(v)])

\* Vec::get
VecGet(v, i) == IF i < Len(v) THEN Some(v[i + 1]) ELSE None

\* Iterator::position on the paths of the view
PositionOf(view, path) ==
    LET hits == {i \in 1..Len(view) : view[i].path = path} IN
    IF hits = {} THEN None
    ELSE Some((CHOOSE i \in hits : \A j \in hits : i <= j) - 1)

\* toggle_folder: the directory it acts on, if any
ToggleTarget(sel, view, nodes) ==
    IF IsSome(sel) /\ IsSome(VecGet(view, Unwrap(sel)))
    THEN LET item == Unwrap(VecGet(view, Unwrap(sel))) IN
         IF item.path \in DOMAIN nodes /\ nodes[item.path].kind = "Directory"
         THEN Some(item.path) ELSE None
    ELSE None

\* toggle_folder: whether it calls load_dir before toggle_open
NeedsLoad_Never(entry) == FALSE

NeedsLoad(entry) == ~entry.is_open /\ entry.children = <<>>

\* toggle_folder giving up when the listing fails
toggle_folder_FailStops(sel, view, nodes, listing) ==
    LET target == ToggleTarget(sel, view, nodes) IN
    IF IsSome(target)
    THEN LET path == Unwrap(target)
             loads == NeedsLoad(nodes[path])
         IN IF loads /\ ~listing.ok
            THEN [nodes |-> nodes, listed |-> Some(path)]
            ELSE [nodes |-> toggle_open(IF loads THEN load_dir(nodes, path, listing)
                                        ELSE nodes, path),
                  listed |-> IF loads THEN Some(path) ELSE None]
    ELSE [nodes |-> nodes, listed |-> None]

\* toggle_folder, given what read_dir would return
toggle_folder(sel, view, nodes, listing) ==
    LET target == ToggleTarget(sel, view, nodes) IN
    IF IsSome(target)
    THEN LET path == Unwrap(target)
             loads == NeedsLoad(nodes[path])
             loaded == IF loads THEN load_dir(nodes, path, listing) ELSE nodes
         IN [nodes |-> toggle_open(loaded, path),
             listed |-> IF loads THEN Some(path) ELSE None]
    ELSE [nodes |-> nodes, listed |-> None]

\* close_nearest: the tree and the selection afterwards
close_nearest(sel, view, nodes) ==
    IF IsSome(sel) /\ IsSome(VecGet(view, Unwrap(sel)))
    THEN LET item == Unwrap(VecGet(view, Unwrap(sel))) IN
         IF item.kind = DirectoryItem(TRUE)
         THEN [nodes |-> set_open(nodes, item.path, FALSE), selected |-> sel]
         ELSE LET parent_path == Parent(item.path)
                  idx == IF IsSome(parent_path)
                         THEN PositionOf(view, Unwrap(parent_path)) ELSE None
              IN IF IsSome(idx)
                 THEN [nodes |-> set_open(nodes, Unwrap(parent_path), FALSE),
                       selected |-> idx]
                 ELSE [nodes |-> nodes, selected |-> sel]
    ELSE [nodes |-> nodes, selected |-> sel]

ui == UiOf(selected, sort, filter, input_mode)

CountListing(calls, l) ==
    IF IsSome(l)
    THEN [calls EXCEPT ![Unwrap(l)] =
              IF @ < MaxListCalls THEN @ + 1 ELSE @]
    ELSE calls

\* main up to its first draw: the root is added, listed and set open, the
\* view is built and drawn.
Init ==
    \E cwd \in Roots : \E l \in Listings(cwd) :
        LET nodes == set_open(load_dir(NewStateManager(cwd), cwd, l), cwd, TRUE)
            view == state_to_view(nodes, cwd, NewUi.filter, NewUi.sort)
        IN /\ root = cwd
           /\ fs_nodes = nodes
           /\ filter = NewUi.filter
           /\ sort = NewUi.sort
           /\ input_mode = NewUi.input_mode
           /\ view_cache = view
           /\ selected = render_list(NewUi.selected, view)
           /\ should_exit = FALSE
           /\ list_calls = CountListing([p \in FsDirs |-> 0], Some(cwd))
           /\ read_result = Some(l)
           /\ ArenaNew

\* One turn of main's loop for a key press: handle_key, the command it
\* returns, then the rebuild of the view if the command asks for it and the
\* draw.
Turn(key, read) ==
    LET hk == handle_key(ui, key)
        act == hk.action
        tf == toggle_folder(hk.ui.selected, view_cache, fs_nodes, read)
        cn == close_nearest(hk.ui.selected, view_cache, fs_nodes)
        nodes2 == IF act = Some("ToggleFolder") THEN tf.nodes
                  ELSE IF act = Some("CloseNearest") THEN cn.nodes
                  ELSE fs_nodes
        sel2 == IF act = Some("CloseNearest") THEN cn.selected ELSE hk.ui.selected
        should_rebuild_view == act \in {Some("ToggleFolder"), Some("CloseNearest")}
        exits == act = Some("Quit")
        view2 == IF should_rebuild_view /\ ~exits
                 THEN state_to_view(nodes2, root, hk.ui.filter, hk.ui.sort)
                 ELSE view_cache
        l == IF act = Some("ToggleFolder") THEN tf.listed ELSE None
    IN /\ root' = root
       /\ fs_nodes' = nodes2
       /\ filter' = hk.ui.filter
       /\ sort' = hk.ui.sort
       /\ input_mode' = hk.ui.input_mode
       /\ view_cache' = view2
       /\ selected' = IF exits THEN sel2 ELSE render_list(sel2, view2)
       /\ should_exit' = exits
       /\ list_calls' = CountListing(list_calls, l)
       /\ read_result' = IF IsSome(l) THEN Some(read) ELSE None
       /\ UNCHANGED arenaVars

\* read_dir is reached only by a toggle that loads; elsewhere its result is
\* never asked for
NoListing == Err

\* what read_dir can return to the toggle of the selected item
ToggleListings ==
    LET target == ToggleTarget(selected, view_cache, fs_nodes) IN
    IF input_mode = "Normal" /\ IsSome(target) /\ NeedsLoad(fs_nodes[Unwrap(target)])
    THEN Listings(Unwrap(target))
    ELSE {NoListing}

\* q or Esc
PressQ ==
    /\ ~should_exit
    /\ Turn("q", NoListing)

\* h or Left
PressH ==
    /\ ~should_exit
    /\ Turn("h", NoListing)

\* j or Down
PressJ ==
    /\ ~should_exit
    /\ Turn("j", NoListing)

\* k or Up
PressK ==
    /\ ~should_exit
    /\ Turn("k", NoListing)

PressG ==
    /\ ~should_exit
    /\ Turn("g", NoListing)

PressShiftG ==
    /\ ~should_exit
    /\ Turn("G", NoListing)

\* l, Right or Enter
PressL ==
    /\ ~should_exit
    /\ \E read \in ToggleListings : Turn("l", read)

PressF ==
    /\ ~should_exit
    /\ Turn("f", NoListing)

PressD ==
    /\ ~should_exit
    /\ Turn("d", NoListing)

PressDot ==
    /\ ~should_exit
    /\ Turn(".", NoListing)

\* any other key
PressOther ==
    /\ ~should_exit
    /\ Turn("other", NoListing)

\* an event that is no key press: handle_key returns None at once
NotAPress ==
    /\ ~should_exit
    /\ read_result' = None
    /\ UNCHANGED <<root, fs_nodes, selected, filter, sort, input_mode, view_cache,
                   should_exit, list_calls>>
    /\ UNCHANGED arenaVars

Next ==
    \/ PressQ
    \/ PressH
    \/ PressJ
    \/ PressK
    \/ PressG
    \/ PressShiftG
    \/ PressL
    \/ PressF
    \/ PressD
    \/ PressDot
    \/ PressOther
    \/ NotAPress

Spec == Init /\ [][Next]_allVars


(***************************************************************************)
(* lsn-core and the projection used as a library: the public operations    *)
(* of StateManager called in any order on a tree rooted at any of Roots,   *)
(* under any filter and sort, the view being projected after each call.    *)
(***************************************************************************)
\* the paths that lie at or below the root
PathsUnder(r) == {p \in AllPaths : p[1] = r[1]}

\* the settings a Filter can take
Filters == {Filter(d, f, h) : d \in BOOLEAN, f \in BOOLEAN, h \in BOOLEAN}

\* StateManager::new(root), Filter::default(), Sort::default()
InitCore ==
    \E r \in Roots :
        /\ root = r
        /\ fs_nodes = NewStateManager(r)
        /\ filter = DefaultFilter
        /\ sort = DefaultSort
        /\ view_cache = state_to_view(NewStateManager(r), r, DefaultFilter, DefaultSort)
        /\ selected = None
        /\ input_mode = None
        /\ should_exit = FALSE
        /\ list_calls = None
        /\ read_result = None
        /\ ArenaNew

\* the tree has changed to `nodes`, the settings to `flt` and `srt`
CoreStep(nodes, flt, srt) ==
    /\ fs_nodes' = nodes
    /\ filter' = flt
    /\ sort' = srt
    /\ view_cache' = state_to_view(nodes, root, flt, srt)
    /\ UNCHANGED <<root, selected, input_mode, should_exit, list_calls, read_result>>
    /\ UNCHANGED arenaVars

\* state.load_dir(path) on a directory of the tree
LoadDir(path, read) ==
    /\ path \in DOMAIN fs_nodes
    /\ fs_nodes[path].kind = "Directory"
    /\ CoreStep(load_dir(fs_nodes, path, read), filter, sort)

\* state.toggle_open(path), on any path
ToggleOpen(path) ==
    /\ CoreStep(toggle_open(fs_nodes, path), filter, sort)

\* state.set_open(path, open), on any path
SetOpen(path, open) ==
    /\ CoreStep(set_open(fs_nodes, path, open), filter, sort)

\* one of the three flags of the filter is flipped
FlipFilter(flt) ==
    /\ Cardinality({k \in {"directories", "files", "dotfiles"} : flt[k] # filter[k]}) = 1
    /\ CoreStep(fs_nodes, flt, sort)

\* the sort is set
SetSort(srt) ==
    /\ srt # sort
    /\ CoreStep(fs_nodes, filter, srt)

NextCore ==
    \/ \E path \in PathsUnder(root) : \E read \in Listings(path) : LoadDir(path, read)
    \/ \E path \in PathsUnder(root) : ToggleOpen(path)
    \/ \E path \in PathsUnder(root), open \in BOOLEAN : SetOpen(path, open)
    \/ \E flt \in Filters : FlipFilter(flt)
    \/ \E srt \in Sorts : SetSort(srt)

CoreSpec == InitCore /\ [][NextCore]_allVars

(***************************************************************************)
(* Claims about loading the children of a directory.                       *)
(***************************************************************************)
\* the step lists a directory that was listed before
ListedAgain(p) == list_calls[p] >= 1 /\ list_calls'[p] > list_calls[p]

\* C9: loading a directory a second time yields the child set of the first
\* load, does not grow the node store and resets no node that exists: a step
\* that lists an already listed directory leaves its children, the set of
\* stored paths and every other node as they were.
C9_LoadIdempotent ==
    [][\A p \in FsDirs :
           ListedAgain(p) =>
               /\ fs_nodes'[p].children = fs_nodes[p].children
               /\ DOMAIN fs_nodes' = DOMAIN fs_nodes
               /\ \A q \in DOMAIN fs_nodes \ {p} : fs_nodes'[q] = fs_nodes[q]]_vars

\* a directory counts as loaded once its listing has been asked for
Loaded(p) == list_calls[p] >= 1

\* C10: after every command, no directory is open whose children were never
\* loaded; a toggle that opens a directory not yet loaded loads it first.
C10_OpenImpliesLoaded ==
    \A p \in DOMAIN fs_nodes :
        (fs_nodes[p].kind = "Directory" /\ fs_nodes[p].is_open) => Loaded(p)

\* a directory below the root has been opened by a toggle, which loaded it
C10_Witness ==
    \E p \in DOMAIN fs_nodes :
        /\ p # root
        /\ fs_nodes[p].kind = "Directory"
        /\ fs_nodes[p].is_open
        /\ fs_nodes[p].children # <<>>
        /\ Loaded(p)


\* the paths of the items of a view, in order
PathsOf(view) == [i \in 1..Len(view) |-> view[i].path]

\* p is shown in the view as an open directory with nothing below it
ShownEmptyOpen(view, p) ==
    /\ \E i \in 1..Len(view) :
           view[i].path = p /\ view[i].kind = DirectoryItem(TRUE)
    /\ \A i \in 1..Len(view) : Parent(view[i].path) # Some(p)

\* C11: when read_dir fails while a directory is expanded, the expansion
\* still completes: the directory is open, has been listed and has no
\* children, no node is added or changed, the program keeps running, and the
\* projection shows the directory open with nothing below it.
C11_FailedListingOpensEmpty ==
    [][read_result' = Some(Err) =>
           LET t == ToggleTarget(selected, view_cache, fs_nodes) IN
           /\ IsSome(t)
           /\ LET p == Unwrap(t) IN
              /\ fs_nodes'[p].kind = "Directory"
              /\ fs_nodes'[p].is_open
              /\ fs_nodes'[p].children = <<>>
              /\ list_calls'[p] >= 1
              /\ DOMAIN fs_nodes' = DOMAIN fs_nodes
              /\ \A q \in DOMAIN fs_nodes \ {p} : fs_nodes'[q] = fs_nodes[q]
              /\ ~should_exit'
              /\ ShownEmptyOpen(state_to_view(fs_nodes', root', DefaultFilter, sort'), p)
              /\ \/ ShownEmptyOpen(view_cache', p)
                 \/ \A i \in 1..Len(view_cache') : view_cache'[i].path # p]_vars

\* the listing of a directory below the root has just failed and the
\* directory stands open and empty in the view
C11_Witness ==
    /\ read_result = Some(Err)
    /\ \E p \in DOMAIN fs_nodes :
           /\ p # root
           /\ fs_nodes[p].kind = "Directory"
           /\ fs_nodes[p].is_open
           /\ fs_nodes[p].children = <<>>
           /\ FsEntries(p) # {}
           /\ ShownEmptyOpen(view_cache, p)


\* C12: read_dir is called at most once for each directory, whatever the
\* commands: a directory whose listing failed or was empty is not listed
\* again when it is closed and opened again.
C12_ListedAtMostOnce == \A p \in FsDirs : list_calls[p] <= 1


(***************************************************************************)
(* Claims about the open flag and the path index.                          *)
(***************************************************************************)
IsDirectoryNode(nodes, p) == p \in DOMAIN nodes /\ nodes[p].kind = "Directory"

\* C13: toggle_open applied twice to a directory returns is_open to its
\* original value (the first application having flipped it), and the second
\* application changes neither the children of the directory nor any other
\* node.
C13_ToggleTwice ==
    \A p \in PathsUnder(root) :
        IsDirectoryNode(fs_nodes, p) =>
            LET once == toggle_open(fs_nodes, p)
                twice == toggle_open(once, p)
            IN /\ once[p].is_open # fs_nodes[p].is_open
               /\ twice[p].is_open = fs_nodes[p].is_open
               /\ twice[p].children = once[p].children
               /\ DOMAIN twice = DOMAIN once
               /\ \A q \in DOMAIN once \ {p} : twice[q] = once[q]

\* a directory with children stands open below the root, so the toggles are
\* applied to a node whose children and neighbours could be disturbed
C13_Witness ==
    \E p \in DOMAIN fs_nodes :
        /\ p # root
        /\ IsDirectoryNode(fs_nodes, p)
        /\ fs_nodes[p].is_open
        /\ fs_nodes[p].children # <<>>
        /\ Cardinality(DOMAIN fs_nodes) >= 5

\* C14: the path index and the node store correspond one to one: every node
\* is found under exactly its own path, the lookup of a path yields a node
\* with that path, and no entry is without a node.
C14_IndexMatchesNodes ==
    /\ \A p \in DOMAIN fs_nodes :
           /\ fs_nodes[p].path = p
           /\ get_entry(fs_nodes, p) = Some(fs_nodes[p])
    /\ \A p, q \in DOMAIN fs_nodes : fs_nodes[p].path = fs_nodes[q].path => p = q
    /\ \A p \in PathsUnder(root) \ DOMAIN fs_nodes : get_entry(fs_nodes, p) = None

\* nodes three levels deep have been created by loads
C14_Witness ==
    /\ Cardinality(DOMAIN fs_nodes) >= 5
    /\ \E p \in DOMAIN fs_nodes : Len(p) = 3

\* C15: toggle_open and set_open change only the is_open flag of the
\* directory they are given; given a file or a path that is not in the tree
\* they change nothing.
C15_OpenFrame ==
    \A p \in PathsUnder(root), b \in BOOLEAN :
        LET t == toggle_open(fs_nodes, p)
            o == set_open(fs_nodes, p, b)
        IN IF IsDirectoryNode(fs_nodes, p)
           THEN /\ DOMAIN t = DOMAIN fs_nodes /\ DOMAIN o = DOMAIN fs_nodes
                /\ \A q \in DOMAIN fs_nodes \ {p} : t[q] = fs_nodes[q] /\ o[q] = fs_nodes[q]
                /\ t[p].is_open = ~fs_nodes[p].is_open
                /\ o[p].is_open = b
                /\ \A x \in {t, o} :
                       /\ x[p].path = fs_nodes[p].path
                       /\ x[p].kind = fs_nodes[p].kind
                       /\ x[p].children = fs_nodes[p].children
           ELSE t = fs_nodes /\ o = fs_nodes

\* the tree holds a file, lacks some path, and holds a closed directory with
\* children: each case of the claim is at hand
C15_Witness ==
    /\ \E p \in DOMAIN fs_nodes : fs_nodes[p].kind = "File"
    /\ PathsUnder(root) \ DOMAIN fs_nodes # {}
    /\ \E p \in DOMAIN fs_nodes :
           /\ IsDirectoryNode(fs_nodes, p)
           /\ ~fs_nodes[p].is_open
           /\ fs_nodes[p].children # <<>>


(***************************************************************************)
(* Claims about the projection.                                            *)
(***************************************************************************)
\* the nodes reached from S through the children of open directories
RECURSIVE Reach(_, _)
Reach(S, nodes) ==
    LET open == {q \in S : IsDirectoryNode(nodes, q) /\ nodes[q].is_open}
        T == S \cup UNION {Range(nodes[q].children) : q \in open}
    IN IF T = S THEN S ELSE Reach(T, nodes)

\* what a walk from the root that descends only into open directories visits
OpenReach(nodes, r) == Reach({r}, nodes)

\* the items of a view are in strictly ascending order of their paths; as a
\* path precedes every path it is a prefix of, this is the pre-order of the
\* visited nodes with siblings in ascending order
AscendingPaths(view) ==
    \A i, j \in 1..Len(view) : i < j => CmpPath(view[i].path, view[j].path) < 0

\* every item carries the name, kind and depth of its node
ItemsMatchNodes(view, nodes, r) ==
    \A i \in 1..Len(view) :
        LET p == view[i].path IN
        /\ p \in DOMAIN nodes
        /\ view[i].name = FileName(p)
        /\ view[i].depth = Len(p) - Len(r)
        /\ view[i].kind = IF nodes[p].kind = "Directory"
                          THEN DirectoryItem(nodes[p].is_open) ELSE FileItem

\* C16: with no filter and sort = Alphabetical the projection is the
\* pre-order walk from the root that descends only into open directories and
\* takes siblings in ascending order of path.
C16_AlphabeticalPreOrder ==
    LET view == state_to_view(fs_nodes, root, DefaultFilter, "Alphabetical") IN
    /\ Range(PathsOf(view)) = OpenReach(fs_nodes, root)
    /\ AscendingPaths(view)
    /\ ItemsMatchNodes(view, fs_nodes, root)

\* the view on display is such a projection, with several siblings and among
\* them a closed directory that has children
C16_Witness ==
    /\ filter = DefaultFilter
    /\ sort = "Alphabetical"
    /\ Len(view_cache) >= 4
    /\ \E i \in 1..Len(view_cache) :
           LET p == view_cache[i].path IN
           /\ IsDirectoryNode(fs_nodes, p)
           /\ ~fs_nodes[p].is_open
           /\ fs_nodes[p].children # <<>>


\* some component of the path from the k-th on starts with '.': the node or
\* one of its ancestors from that level down has a dot name
DotFrom(p, k) == \E n \in k..Len(p) : StartsWithDot(p[n])

\* the filters with the dotfile flag set
DotFilters == {flt \in Filters : flt.dotfiles}

\* C17, as stated: with the dotfile filter on, no item of the projection has
\* a leaf name starting with '.', the root included, and none is a
\* descendant of such a node.
C17_NoDotItemAtAll ==
    \A flt \in DotFilters, srt \in Sorts :
        LET view == state_to_view(fs_nodes, root, flt, srt) IN
        \A i \in 1..Len(view) : ~DotFrom(view[i].path, 1)

\* C17, amended: with the dotfile filter on, no item of the projection other
\* than the root has a leaf name starting with '.', and none is a descendant
\* of such a node below the root; the root itself is shown whatever its name.
C17_NoDotItemBelowRoot ==
    \A flt \in DotFilters, srt \in Sorts :
        LET view == state_to_view(fs_nodes, root, flt, srt) IN
        /\ Len(view) >= 1
        /\ view[1].path = root
        /\ \A i \in 1..Len(view) : ~DotFrom(view[i].path, Len(root) + 1)

\* the view on display is filtered for dotfiles: the root has a dot name and
\* is shown, an entry without a dot is shown below it, and dot-named entries
\* of the open root are left out
C17_Witness ==
    /\ filter.dotfiles
    /\ StartsWithDot(FileName(root))
    /\ Len(view_cache) >= 2
    /\ view_cache[1].path = root
    /\ \E p \in OpenReach(fs_nodes, root) :
           /\ p # root
           /\ StartsWithDot(FileName(p))
           /\ IsDirectoryNode(fs_nodes, p)
           /\ p \notin Range(PathsOf(view_cache))


\* q lies strictly below d
StrictlyBelow(q, d) == Len(q) > Len(d) /\ SubSeq(q, 1, Len(d)) = d

\* the paths from the i-th on that are not strictly below d, nor d itself
\* when drop_d is set, in their order
RECURSIVE KeepPaths(_, _, _, _)
KeepPaths(paths, d, drop_d, i) ==
    IF i > Len(paths) THEN <<>>
    ELSE (IF StrictlyBelow(paths[i], d) \/ (drop_d /\ paths[i] = d)
          THEN <<>> ELSE <<paths[i]>>)
         \o KeepPaths(paths, d, drop_d, i + 1)

\* the open directories a view displays
DisplayedOpen(view, nodes) ==
    {view[i].path : i \in {k \in 1..Len(view) : view[k].kind = DirectoryItem(TRUE)}}

\* C18, as stated: under any filter and sort, closing a displayed directory
\* d removes from the projection the entries strictly below d, keeps the
\* entry of d and keeps every other entry in its place.
C18_CloseKeepsDirectory ==
    \A flt \in Filters, srt \in Sorts :
        LET before == state_to_view(fs_nodes, root, flt, srt) IN
        \A d \in DisplayedOpen(before, fs_nodes) :
            LET after == state_to_view(set_open(fs_nodes, d, FALSE), root, flt, srt)
            IN PathsOf(after) = KeepPaths(PathsOf(before), d, FALSE, 1)

\* C18, amended: closing a displayed directory d removes the entries
\* strictly below d and keeps every other entry in its place; the entry of d
\* stays, now closed, unless the directory filter is on and d is not the
\* root, in which case it goes as well.
C18_CloseRemovesBelow ==
    \A flt \in Filters, srt \in Sorts :
        LET before == state_to_view(fs_nodes, root, flt, srt) IN
        \A d \in DisplayedOpen(before, fs_nodes) :
            LET after == state_to_view(set_open(fs_nodes, d, FALSE), root, flt, srt)
                hidden == flt.directories /\ d # root
            IN /\ PathsOf(after) = KeepPaths(PathsOf(before), d, hidden, 1)
               /\ \A i \in 1..Len(after) :
                      \E k \in 1..Len(before) :
                          IF after[i].path = d
                          THEN after[i] = [before[k] EXCEPT !.kind = DirectoryItem(FALSE)]
                          ELSE after[i] = before[k]

\* the view on display shows, under the directory filter, an open directory
\* below the root with an entry of its own below it
C18_Witness ==
    /\ filter.directories
    /\ \E d \in DisplayedOpen(view_cache, fs_nodes) :
           /\ d # root
           /\ \E i \in 1..Len(view_cache) : StrictlyBelow(view_cache[i].path, d)


\* C19: for a tree and a filter, the projections under the three sorts have
\* the same items (path, name, kind and depth), each once; only the order
\* differs.
C19_SortKeepsItems ==
    \A flt \in Filters :
        \A s1, s2 \in Sorts :
            LET v1 == state_to_view(fs_nodes, root, flt, s1)
                v2 == state_to_view(fs_nodes, root, flt, s2)
            IN /\ Range(v1) = Range(v2)
               /\ Len(v1) = Len(v2)
               /\ Cardinality(Range(PathsOf(v1))) = Len(v1)

\* the view on display has several items and another sort would order them
\* differently
C19_Witness ==
    /\ Len(view_cache) >= 4
    /\ \E srt \in Sorts :
           /\ srt # sort
           /\ state_to_view(fs_nodes, root, filter, srt) # view_cache

\* i and j are items of the same directory
Siblings(view, i, j) == Parent(view[i].path) = Parent(view[j].path)

IsDirItem(item) == item.kind # FileItem

\* the order the sort demands of two siblings, the first displayed earlier
InSortOrder(srt, a, b) ==
    CASE srt = "Directory" ->
             \/ IsDirItem(a) /\ ~IsDirItem(b)
             \/ IsDirItem(a) = IsDirItem(b) /\ CmpPath(a.path, b.path) < 0
      [] srt = "File" ->
             \/ ~IsDirItem(a) /\ IsDirItem(b)
             \/ IsDirItem(a) = IsDirItem(b) /\ CmpPath(a.path, b.path) < 0
      [] srt = "Alphabetical" -> CmpPath(a.path, b.path) < 0

\* C20: among the displayed children of an open directory, directories come
\* before files under Sort::Directory, files before directories under
\* Sort::File, entries of one kind in ascending path order, and under
\* Sort::Alphabetical all are in ascending path order whatever their kind.
C20_SiblingOrder ==
    \A flt \in Filters, srt \in Sorts :
        LET view == state_to_view(fs_nodes, root, flt, srt) IN
        \A i, j \in 1..Len(view) :
            (i < j /\ Siblings(view, i, j)) => InSortOrder(srt, view[i], view[j])

\* the view on display is sorted files first and shows a file before a
\* directory whose path is smaller, and two directories after it
C20_Witness ==
    /\ sort = "File"
    /\ \E i, j, k \in 1..Len(view_cache) :
           /\ i < j /\ j < k
           /\ Siblings(view_cache, i, j) /\ Siblings(view_cache, j, k)
           /\ ~IsDirItem(view_cache[i])
           /\ IsDirItem(view_cache[j]) /\ IsDirItem(view_cache[k])
           /\ CmpPath(view_cache[j].path, view_cache[i].path) < 0

\* ---------------------------------------------------------------------------
\* C21: the three filters together

\* the children a displayed open directory stores
ChildrenOf(nodes, d) == {c \in Range(nodes[d].children) : c \in DOMAIN nodes}

\* c is hidden by flt: a dot name under the dotfile filter, a file under the
\* file filter, a closed directory under the directory filter
Hidden(nodes, c, flt) ==
    \/ flt.dotfiles /\ Head(FileName(c)) = Dot
    \/ flt.files /\ nodes[c].kind = "File"
    \/ flt.directories /\ nodes[c].kind = "Directory" /\ nodes[c].is_open = FALSE

\* C21: under any filter and sort, a child of a displayed open directory is
\* displayed iff it is not hidden, where it is hidden exactly when the
\* dotfile filter is on and its leaf name starts with '.', or the file
\* filter is on and it is a File, or the directory filter is on and it is a
\* closed Directory; an open directory is never hidden by the directory
\* filter.
C21_ChildShownIffNotHidden ==
    \A flt \in Filters, srt \in Sorts :
        LET view == state_to_view(fs_nodes, root, flt, srt)
            shown == Range(PathsOf(view))
        IN \A d \in DisplayedOpen(view, fs_nodes) :
               \A c \in ChildrenOf(fs_nodes, d) :
                   /\ (c \in shown) <=> ~Hidden(fs_nodes, c, flt)
                   /\ (/\ fs_nodes[c].kind = "Directory" /\ fs_nodes[c].is_open
                       /\ ~(flt.dotfiles /\ Head(FileName(c)) = Dot))
                      => c \in shown

\* a displayed open directory holds an open directory, a closed dot
\* directory and a dot file: under the three filters together the first is
\* shown and the other two are hidden
C21_Witness ==
    LET flt == Filter(TRUE, TRUE, TRUE)
        view == state_to_view(fs_nodes, root, flt, sort)
        shown == Range(PathsOf(view))
    IN \E d \in DisplayedOpen(view, fs_nodes) :
           \E c1, c2, c3 \in ChildrenOf(fs_nodes, d) :
               /\ fs_nodes[c1].kind = "Directory" /\ fs_nodes[c1].is_open /\ c1 \in shown
               /\ fs_nodes[c2].kind = "Directory" /\ ~fs_nodes[c2].is_open
               /\ Head(FileName(c2)) = Dot /\ c2 \notin shown
               /\ fs_nodes[c3].kind = "File" /\ c3 \notin shown

\* ---------------------------------------------------------------------------
\* C22: a filtered-out node takes its subtree with it

\* q is p or lies below p
AtOrBelow(q, p) == q = p \/ StrictlyBelow(q, p)

\* C22, as stated: under any filter and sort, when a stored node fails the
\* filter, neither it nor any of its descendants is an item of the
\* projection.
C22_FilteredNodeSubtreeAbsent ==
    \A flt \in Filters, srt \in Sorts :
        LET view == state_to_view(fs_nodes, root, flt, srt) IN
        \A p \in DOMAIN fs_nodes :
            ~should_display(p, fs_nodes, flt)
                => \A i \in 1..Len(view) : ~AtOrBelow(view[i].path, p)

\* C22: under any filter and sort, when a stored node other than the root
\* fails the filter, neither it nor any of its descendants is an item of the
\* projection, even when the node is an open directory and the descendant
\* itself passes the filter.
C22_FilteredChildSubtreeAbsent ==
    \A flt \in Filters, srt \in Sorts :
        LET view == state_to_view(fs_nodes, root, flt, srt) IN
        \A p \in DOMAIN fs_nodes \ {root} :
            ~should_display(p, fs_nodes, flt)
                => \A i \in 1..Len(view) : ~AtOrBelow(view[i].path, p)

\* an open directory with a loaded child fails some filter while its child
\* passes it and its parent is displayed: the child is not displayed
C22_Witness ==
    \E flt \in Filters :
        LET view == state_to_view(fs_nodes, root, flt, sort)
            shown == Range(PathsOf(view))
        IN \E p \in DOMAIN fs_nodes \ {root} :
               /\ fs_nodes[p].kind = "Directory" /\ fs_nodes[p].is_open
               /\ ~should_display(p, fs_nodes, flt)
               /\ Unwrap(Parent(p)) \in DisplayedOpen(view, fs_nodes)
               /\ \E q \in ChildrenOf(fs_nodes, p) :
                      should_display(q, fs_nodes, flt) /\ q \notin shown

\* ---------------------------------------------------------------------------
\* C23: the end-to-end scenario in "r"

R_a == <<n_r, n_a>>
R_a_x_txt == <<n_r, n_a, n_x_txt>>
R_hidden == <<n_r, n_hidden>>
R_b_txt == <<n_r, n_b_txt>>

\* the root is listed, a is closed and not yet listed
ScenarioLoaded(nodes) ==
    /\ DOMAIN nodes = {RootPath, R_a, R_hidden, R_b_txt}
    /\ nodes[RootPath].is_open
    /\ Range(nodes[RootPath].children) = {R_a, R_hidden, R_b_txt}
    /\ nodes[R_a].kind = "Directory" /\ ~nodes[R_a].is_open /\ nodes[R_a].children = <<>>
    /\ nodes[R_hidden].kind = "File" /\ nodes[R_b_txt].kind = "File"

\* a has been opened and listed
ScenarioExpanded(nodes) ==
    /\ DOMAIN nodes = {RootPath, R_a, R_a_x_txt, R_hidden, R_b_txt}
    /\ nodes[RootPath].is_open
    /\ Range(nodes[RootPath].children) = {R_a, R_hidden, R_b_txt}
    /\ nodes[R_a].kind = "Directory" /\ nodes[R_a].is_open
    /\ nodes[R_a].children = <<R_a_x_txt>>
    /\ nodes[R_a_x_txt].kind = "File"

NoFiltersDirectoriesFirst == filter = DefaultFilter /\ sort = "Directory"

\* the scenario, with the paths the projection is to show at its three
\* stages: at start, after the toggle of a that lists it, and after the
\* dotfile filter is then switched on
Scenario(at_start, expanded, dot_filtered) ==
    /\ (ScenarioLoaded(fs_nodes) /\ NoFiltersDirectoriesFirst)
           => PathsOf(state_to_view(fs_nodes, root, filter, sort)) = at_start
    /\ (/\ ScenarioLoaded(fs_nodes) /\ NoFiltersDirectoriesFirst
        /\ R_a \in DOMAIN fs_nodes' /\ fs_nodes'[R_a].is_open
        /\ read_result' = Some(Ok({n_x_txt})))
           => /\ ScenarioExpanded(fs_nodes')
              /\ PathsOf(state_to_view(fs_nodes', root', filter', sort')) = expanded
    /\ (/\ ScenarioExpanded(fs_nodes) /\ NoFiltersDirectoriesFirst
        /\ filter' = Filter(FALSE, FALSE, TRUE))
           => /\ fs_nodes' = fs_nodes
              /\ PathsOf(state_to_view(fs_nodes', root', filter', sort')) = dot_filtered

SelectedItem ==
    IF IsSome(selected) THEN VecGet(view_cache, Unwrap(selected)) ELSE None

\* h is pressed in normal mode, which handle_key turns into CloseNearest
CloseNearestPressed == input_mode = "Normal" /\ PressH

\* this step sets is_open of d to false and changes nothing else in the tree
ClosesOnly(d) ==
    /\ DOMAIN fs_nodes' = DOMAIN fs_nodes
    /\ \A p \in DOMAIN fs_nodes :
           fs_nodes'[p] = IF p = d THEN [fs_nodes[p] EXCEPT !.is_open = FALSE]
                          ELSE fs_nodes[p]

\* sel is the index of d in the projection of the tree under flt and srt
Designates(sel, d, nodes, flt, srt) ==
    sel = PositionOf(state_to_view(nodes, root, flt, srt), d) /\ IsSome(sel)

\* d is an item of the projection of the tree after this step, under the
\* filter and sort after this step
StillShown(d) ==
    IsSome(PositionOf(state_to_view(fs_nodes', root', filter', sort'), d))

\* C24, as stated: CloseNearest with an open directory selected closes that
\* directory and changes no other node, and afterwards the selection is the
\* index of that directory in the projection of the new tree under the
\* current filter and sort. The selection is looked at only when the
\* directory is an item of that projection.
C24_CloseSelectedOpenDirectory ==
    [][(/\ CloseNearestPressed
        /\ IsSome(SelectedItem)
        /\ Unwrap(SelectedItem).kind = DirectoryItem(TRUE))
           => /\ ClosesOnly(Unwrap(SelectedItem).path)
              /\ StillShown(Unwrap(SelectedItem).path)
                    => Designates(selected', Unwrap(SelectedItem).path,
                                  fs_nodes', filter', sort')]_allVars

\* the directory of the selected item, when that item is a file or a closed
\* directory and its directory is in the drawn view
ParentOfSelected ==
    IF /\ IsSome(SelectedItem)
       /\ Unwrap(SelectedItem).kind # DirectoryItem(TRUE)
       /\ IsSome(Parent(Unwrap(SelectedItem).path))
       /\ IsSome(PositionOf(view_cache, Unwrap(Parent(Unwrap(SelectedItem).path))))
    THEN Parent(Unwrap(SelectedItem).path)
    ELSE None

\* C25, as stated: CloseNearest with a file or a closed directory selected
\* closes the parent directory of the selected node, and afterwards the
\* selection is the index of that parent in the projection of the new tree
\* under the current filter and sort. The selection is looked at only when
\* the parent is an item of that projection.
C25_CloseParentOfSelected ==
    [][(CloseNearestPressed /\ IsSome(ParentOfSelected))
           => /\ ClosesOnly(Unwrap(ParentOfSelected))
              /\ StillShown(Unwrap(ParentOfSelected))
                    => Designates(selected', Unwrap(ParentOfSelected),
                                  fs_nodes', filter', sort')]_allVars

\* ---------------------------------------------------------------------------
\* C26: where the selection lands after a re-projection

\* the index in view of path if it is an item, otherwise of its nearest
\* ancestor that is an item, otherwise 0
RECURSIVE ResolveSelection(_, _)
ResolveSelection(path, view) ==
    IF IsSome(PositionOf(view, path)) THEN Unwrap(PositionOf(view, path))
    ELSE IF Len(path) <= 1 THEN 0
    ELSE ResolveSelection(Unwrap(Parent(path)), view)

\* a key that makes main rebuild the view: l (ToggleFolder) or h
\* (CloseNearest) in normal mode
RebuildingCommand == input_mode = "Normal" /\ (PressL \/ PressH)

\* C26, as stated: after a command that makes main re-project, the selection
\* is the index in the new projection of the node that was selected if that
\* node is still displayed, otherwise of its nearest ancestor still
\* displayed, otherwise 0.
C26_SelectionFollowsNode ==
    [][(RebuildingCommand /\ IsSome(SelectedItem))
           => selected' = Some(ResolveSelection(
                                Unwrap(SelectedItem).path,
                                state_to_view(fs_nodes', root', filter', sort')))]_allVars

\* ---------------------------------------------------------------------------
\* C27: what is drawn is the current projection

\* C27, as stated: at every frame the items handed to draw are the
\* projection of the current tree under the current filter and sort.
C27_FrameIsCurrentProjection ==
    ~should_exit => view_cache = state_to_view(fs_nodes, root, filter, sort)

\* ---------------------------------------------------------------------------
\* C28: the projection depends on the tree, the filter and the sort only

\* the orders in which the elements of a sequence can be arranged
Orderings(seq) ==
    {p \in [1..Len(seq) -> Range(seq)] : \A i, j \in 1..Len(seq) : p[i] = p[j] => i = j}

\* the directories of the tree
DirectoriesOf(nodes) == {d \in DOMAIN nodes : nodes[d].kind = "Directory"}

\* C28: under the filter and sort in effect the projection is the same
\* whatever the order in which a directory stores its children, and a
\* directory's listing yields the same tree whatever the order in which
\* read_dir returns the entries; the projection is a function of (tree,
\* filter, sort) that returns items only.
C28_OrderIndependent ==
    /\ \A d \in DirectoriesOf(fs_nodes) :
           \A stored \in Orderings(fs_nodes[d].children) :
               state_to_view([fs_nodes EXCEPT ![d].children = stored], root, filter, sort)
                   = state_to_view(fs_nodes, root, filter, sort)
    /\ \A d \in DirectoriesOf(fs_nodes) :
           \A returned \in Orderings(SetToSeq({Join(d, n) : n \in FsEntries(d)})) :
               load_dir_entries(fs_nodes, d, returned) = load_dir(fs_nodes, d, Ok(FsEntries(d)))

\* an open directory stores three children or more, directories and files
\* among them, and is displayed with them
C28_Witness ==
    \E d \in DisplayedOpen(view_cache, fs_nodes) :
        /\ Len(fs_nodes[d].children) >= 3
        /\ \E c1, c2 \in ChildrenOf(fs_nodes, d) :
               /\ fs_nodes[c1].kind = "Directory" /\ fs_nodes[c2].kind = "File"
               /\ IsSome(PositionOf(view_cache, c1)) /\ IsSome(PositionOf(view_cache, c2))

\* ---------------------------------------------------------------------------
\* C29: the sort acts on the projection, never on the tree

\* every directory stores its children in ascending order of their paths
StoredInPathOrder(nodes) ==
    \A d \in DirectoriesOf(nodes) :
        \A i, j \in 1..Len(nodes[d].children) :
            i < j => CmpPath(nodes[d].children[i], nodes[d].children[j]) < 0

\* the siblings of a view are in the order srt demands
SiblingsInOrder(view, srt) ==
    \A i, j \in 1..Len(view) :
        (i < j /\ Siblings(view, i, j)) => InSortOrder(srt, view[i], view[j])

\* C29: the view a step projects has its siblings in the order of the sort
\* in effect at that step; the children a directory stores are in path
\* order whatever the sort was when they were loaded; and a step that
\* changes the sort, which re-projects, leaves the tree as it was.
C29_SortOnlyAtProjection ==
    [][/\ SiblingsInOrder(view_cache', sort')
       /\ StoredInPathOrder(fs_nodes')
       /\ sort' # sort => fs_nodes' = fs_nodes]_allVars

\* the sort is files first and an open directory is displayed with its
\* children in another order than the one it stores them in
C29_Witness ==
    /\ sort = "File"
    /\ StoredInPathOrder(fs_nodes)
    /\ \E d \in DisplayedOpen(view_cache, fs_nodes) :
           \E i, j \in 1..Len(view_cache) :
               /\ i < j
               /\ Parent(view_cache[i].path) = Some(d)
               /\ Parent(view_cache[j].path) = Some(d)
               /\ CmpPath(view_cache[j].path, view_cache[i].path) < 0

\* ---------------------------------------------------------------------------
\* C30: depth

\* the nodes of the tree above p: the stored nodes whose path is a proper
\* prefix of p
AncestorsOf(nodes, p) == {q \in DOMAIN nodes : StrictlyBelow(p, q)}

\* C30: under any filter and sort the projection starts with the item of
\* the root at depth 0, and every other item has the depth of the number of
\* its ancestors in the tree, which is one more than the depth of its
\* parent's item, displayed before it.
C30_DepthIsAncestorCount ==
    \A flt \in Filters, srt \in Sorts :
        LET view == state_to_view(fs_nodes, root, flt, srt) IN
        /\ Len(view) >= 1 /\ view[1].path = root /\ view[1].depth = 0
        /\ \A i \in 2..Len(view) :
               /\ view[i].depth = Cardinality(AncestorsOf(fs_nodes, view[i].path))
               /\ \E k \in 1..(i - 1) :
                      /\ Some(view[k].path) = Parent(view[i].path)
                      /\ view[i].depth = view[k].depth + 1

\* the view on display has an item two levels below the root
C30_Witness ==
    \E i \in 1..Len(view_cache) :
        /\ view_cache[i].depth = 2
        /\ Cardinality(AncestorsOf(fs_nodes, view_cache[i].path)) = 2

\* ---------------------------------------------------------------------------
\* C31: the root heads every projection

\* C31: in every reachable tree, under any filter and sort, the projection
\* is non-empty and starts with the item of the root, whether or not the
\* root passes the filter, and holds nothing else unless the root is open.
C31_RootHeadsProjection ==
    \A flt \in Filters, srt \in Sorts :
        LET view == state_to_view(fs_nodes, root, flt, srt) IN
        /\ Len(view) >= 1
        /\ view[1].path = root
        /\ \A i \in 2..Len(view) : view[i].path # root
        /\ ~fs_nodes[root].is_open => Len(view) = 1
        /\ Len(view) > 1 => fs_nodes[root].is_open

\* the root is a closed, listed directory with a dot name: it fails both the
\* dotfile and the directory filter, and it alone is projected under them
C31_Witness ==
    /\ ~fs_nodes[root].is_open
    /\ fs_nodes[root].children # <<>>
    /\ ~should_display(root, fs_nodes, Filter(TRUE, FALSE, TRUE))
    /\ Head(FileName(root)) = Dot
    /\ PathsOf(state_to_view(fs_nodes, root, Filter(TRUE, FALSE, TRUE), sort)) = <<root>>

\* ---------------------------------------------------------------------------
\* C32: nodes stay

\* the node as it was, but for is_open and children of a directory
SameButOpenAndChildren(old, new) ==
    IF old.kind = "Directory"
    THEN /\ new.kind = "Directory"
         /\ [new EXCEPT !.is_open = old.is_open, !.children = old.children] = old
    ELSE new = old

\* C32: over every step of the program the nodes of the tree stay: none is
\* removed, each keeps its path and its kind, a file does not change at
\* all, and of a directory only is_open and the children change, the
\* children only from none to those a listing made in that step returned.
C32_NodesStay ==
    [][/\ DOMAIN fs_nodes \subseteq DOMAIN fs_nodes'
       /\ \A p \in DOMAIN fs_nodes :
              /\ fs_nodes'[p].path = p
              /\ SameButOpenAndChildren(fs_nodes[p], fs_nodes'[p])
              /\ (/\ fs_nodes[p].kind = "Directory"
                  /\ fs_nodes'[p].children # fs_nodes[p].children)
                     => /\ fs_nodes[p].children = <<>>
                        /\ IsSome(read_result') /\ Unwrap(read_result').ok
                        /\ Range(fs_nodes'[p].children)
                               = {Join(p, n) : n \in Unwrap(read_result').names}]_allVars

\* the tree holds a listed directory below the root next to files, all
\* created steps ago, and the directory has been closed again
C32_Witness ==
    \E d \in DirectoriesOf(fs_nodes) \ {root} :
        /\ fs_nodes[d].children # <<>>
        /\ ~fs_nodes[d].is_open
        /\ fs_nodes[root].is_open
        /\ Cardinality(DOMAIN fs_nodes) >= 5

\* ---------------------------------------------------------------------------
\* C33: the life of a directory

\* the nodes directly below d that this step creates
CreatedBelow(d) ==
    {c \in DOMAIN fs_nodes' \ DOMAIN fs_nodes : Parent(c) = Some(d)}

\* a directory node created by this step is closed, has no children and has
\* not been listed
CreatedUnloadedClosed(d) ==
    d \notin DOMAIN fs_nodes
        => /\ ~fs_nodes'[d].is_open
           /\ fs_nodes'[d].children = <<>>
           /\ list_calls'[d] = 0

\* nodes are created below d only by the first listing of d
CreatedByFirstExpansion(d) ==
    CreatedBelow(d) # {} => list_calls[d] = 0 /\ list_calls'[d] = 1

\* a directory never listed has no nodes below it
NeverExpandedIsChildless(d) ==
    list_calls'[d] = 0 => \A c \in DOMAIN fs_nodes' : Parent(c) # Some(d)

\* a directory once listed is not taken for unloaded and listed anew
LoadedStaysLoaded(d) ==
    (d \in DOMAIN fs_nodes /\ Loaded(d)) => list_calls'[d] = list_calls[d]

\* C33, as stated: a directory node is created closed and unloaded; nodes
\* below a directory are created only by its first expansion; a directory
\* never expanded has no child nodes; and a directory once loaded is never
\* unloaded, hence never loaded again.
C33_DirectoryLifecycle ==
    [][\A d \in FsDirs \cap DOMAIN fs_nodes' :
           /\ CreatedUnloadedClosed(d)
           /\ CreatedByFirstExpansion(d)
           /\ NeverExpandedIsChildless(d)
           /\ LoadedStaysLoaded(d)]_allVars

\* ---------------------------------------------------------------------------
\* C34: what each command touches

\* j, k, g or G in normal mode
NavigationCommand ==
    input_mode = "Normal" /\ (PressJ \/ PressK \/ PressG \/ PressShiftG)

\* d, f or . in filter-key mode
FilterCommand ==
    input_mode = "FilterKey" /\ (PressD \/ PressF \/ PressDot)

\* the filter flags this step changes
FlagsFlipped == {k \in {"directories", "files", "dotfiles"} : filter'[k] # filter[k]}

\* the directories whose is_open this step changes
OpenFlipped ==
    {p \in DOMAIN fs_nodes :
        /\ fs_nodes[p].kind = "Directory"
        /\ fs_nodes'[p].is_open # fs_nodes[p].is_open}

\* C34: a navigation command changes neither the tree nor the filter nor the
\* sort; a filter toggle leaves the tree and the sort alone and flips exactly
\* one flag, the one of its key; ToggleFolder and CloseNearest change
\* is_open of at most one directory and create no open directory.
\* Each implication is written effect first (effect \/ ~command), so that
\* the command is only looked at on a step that lacks its effect.
C34_CommandEffects ==
    [][/\ \/ /\ fs_nodes' = fs_nodes /\ list_calls' = list_calls
              /\ filter' = filter /\ sort' = sort
           \/ ~NavigationCommand
       /\ \/ /\ fs_nodes' = fs_nodes /\ list_calls' = list_calls
              /\ sort' = sort
              /\ Cardinality(FlagsFlipped) = 1
              /\ (FlagsFlipped = {"directories"} \/ ~PressD)
              /\ (FlagsFlipped = {"files"} \/ ~PressF)
              /\ (FlagsFlipped = {"dotfiles"} \/ ~PressDot)
           \/ ~FilterCommand
       /\ \/ /\ Cardinality(OpenFlipped) <= 1
              /\ \A p \in DOMAIN fs_nodes' \ DOMAIN fs_nodes :
                     fs_nodes'[p].kind = "Directory" => ~fs_nodes'[p].is_open
              /\ filter' = filter /\ sort' = sort
           \/ ~RebuildingCommand]_allVars

\* two directories are open, two filter flags are on and the selection has
\* moved off the first row
C34_Witness ==
    /\ Cardinality({p \in DirectoriesOf(fs_nodes) : fs_nodes[p].is_open}) >= 2
    /\ Cardinality({k \in {"directories", "files", "dotfiles"} : filter[k]}) = 2
    /\ input_mode = "Normal"
    /\ IsSome(selected) /\ Unwrap(selected) >= 2

\* ---------------------------------------------------------------------------
\* C35: the rows above the directory acted on

\* the first i items of both views are the same
SameRowsAbove(before, after, i) ==
    /\ Len(after) >= i
    /\ SubSeq(after, 1, i) = SubSeq(before, 1, i)

\* the row of the directory close_nearest closes when row i is selected
ClosedRow(view, i) ==
    IF view[i + 1].kind = DirectoryItem(TRUE) THEN Some(i)
    ELSE IF IsSome(Parent(view[i + 1].path))
         THEN PositionOf(view, Unwrap(Parent(view[i + 1].path)))
         ELSE None

C36_UniqueAndBelowParent ==
    \A flt \in Filters, srt \in Sorts :
        LET view == state_to_view(fs_nodes, root, flt, srt) IN
        /\ \A i, j \in 1..Len(view) : view[i].path = view[j].path => i = j
        /\ \A i \in 2..Len(view) :
               \E k \in 1..(i - 1) :
                   /\ Some(view[k].path) = Parent(view[i].path)
                   /\ view[k].kind = DirectoryItem(TRUE)
                   /\ fs_nodes[view[k].path].kind = "Directory"
                   /\ fs_nodes[view[k].path].is_open

\* the view on display has six items or more, one of them in an open
\* directory that is not the root and is followed by other items of the root
C36_Witness ==
    /\ Len(view_cache) >= 6
    /\ \E i, j \in 1..Len(view_cache) :
           /\ i < j
           /\ view_cache[i].depth = 2
           /\ view_cache[j].depth = 1

\* ---------------------------------------------------------------------------
\* C37: commands with nothing to act on

\* no selection, and selections past the last row of the view
NoRowSelections(view) == {None, Some(Len(view)), Some(Len(view) + 1), Some(UsizeMax)}

\* C37: with no selection or a selection past the end of the view on
\* display, toggle_folder and close_nearest are defined and leave the tree
\* as it is, toggle_folder lists nothing and close_nearest leaves the
\* selection; and close_nearest on the row of the root, when the root is
\* closed, changes neither the tree nor the selection.
C37_NothingToActOn ==
    /\ \A sel \in NoRowSelections(view_cache) :
           /\ \A read \in Listings(root) :
                  toggle_folder(sel, view_cache, fs_nodes, read)
                      = [nodes |-> fs_nodes, listed |-> None]
           /\ close_nearest(sel, view_cache, fs_nodes)
                  = [nodes |-> fs_nodes, selected |-> sel]
    /\ ~fs_nodes[root].is_open
           => close_nearest(PositionOf(view_cache, root), view_cache, fs_nodes)
                  = [nodes |-> fs_nodes, selected |-> Some(0)]

\* the root is closed and listed, and is the one row of the view on display;
\* a row past it, taken for the last, would open the root
C37_Witness ==
    /\ ~fs_nodes[root].is_open
    /\ fs_nodes[root].children # <<>>
    /\ PathsOf(view_cache) = <<root>>
    /\ toggle_folder(Some(0), view_cache, fs_nodes, NoListing).nodes # fs_nodes

\* ---------------------------------------------------------------------------
\* C38: the free list of the Arena

\* the slots met when following next_free from head, for at most fuel steps;
\* the walk ends after a slot that is out of range or not Free
RECURSIVE FreeWalk(_, _, _)
FreeWalk(d, head, fuel) ==
    IF head = None \/ fuel = 0 THEN <<>>
    ELSE LET idx == Unwrap(head) IN
         IF idx >= Len(d) \/ d[idx + 1].tag # "Free" THEN <<idx>>
         ELSE <<idx>> \o FreeWalk(d, d[idx + 1].next_free, fuel - 1)

\* the indices of the Free slots
FreeSlots(d) == {i \in 0..(Len(d) - 1) : d[i + 1].tag = "Free"}

\* C38: in every state reached by insert, remove, get and get_mut the walk
\* from free_slot along next_free meets only Free slots, meets none twice
\* and meets every Free slot, and neither panic has been raised.
C38_FreeListWellFormed ==
    LET walk == FreeWalk(data, free_slot, Len(data) + 1) IN
    /\ \A k \in 1..Len(walk) : walk[k] \in FreeSlots(data)
    /\ \A k, l \in 1..Len(walk) : walk[k] = walk[l] => k = l
    /\ Range(walk) = FreeSlots(data)
    /\ fault = "none"

\* two slots are free and linked, the one freed last at the head
C38_Witness ==
    /\ Cardinality(FreeSlots(data)) = 2
    /\ Len(FreeWalk(data, free_slot, Len(data) + 1)) = 2
    /\ Len(freed) = 2
    /\ free_slot = Some(freed[2].index)


(***************************************************************************)
(* C39: the filter-key mode lasts for one key press.                       *)
(***************************************************************************)
\* a turn of the loop whose event is a key press
KeyPress ==
    \/ PressQ \/ PressH \/ PressJ \/ PressK \/ PressG \/ PressShiftG
    \/ PressL \/ PressF \/ PressD \/ PressDot \/ PressOther

\* the flag each filter key stands for
FlagOfKey ==
    IF PressD THEN {"directories"}
    ELSE IF PressF THEN {"files"}
    ELSE IF PressDot THEN {"dotfiles"}
    ELSE {}

\* C39: from Normal mode f enters the filter-key mode and does nothing else;
\* the next key press, whatever the key, returns to Normal mode, flips the
\* flag of d, f or . and no flag for any other key, and neither quits nor
\* moves the selection nor touches the tree or the frame; an event that is
\* not a key press leaves the mode and everything else as it was.
C39_FilterKeyLastsOneKey ==
    [][ /\ (input_mode = "Normal" /\ PressF) =>
            /\ input_mode' = "FilterKey"
            /\ UNCHANGED <<root, fs_nodes, selected, filter, sort, view_cache,
                           should_exit, list_calls>>
        /\ (input_mode = "FilterKey" /\ KeyPress) =>
            /\ input_mode' = "Normal"
            /\ Cardinality(FlagsFlipped) <= 1
            /\ FlagsFlipped = FlagOfKey
            /\ ~should_exit'
            /\ UNCHANGED <<root, fs_nodes, selected, sort, view_cache, list_calls>>
        /\ NotAPress =>
            UNCHANGED <<root, fs_nodes, selected, filter, sort, input_mode,
                        view_cache, should_exit, list_calls>>
      ]_allVars

\* the filter-key mode entered a second time: a first visit ended with a
\* flag flipped, and the tree has been expanded in between
C39_Witness ==
    /\ input_mode = "FilterKey"
    /\ ~should_exit
    /\ filter.dotfiles /\ ~filter.files /\ ~filter.directories
    /\ \E p \in DOMAIN fs_nodes :
        Len(p) = 2 /\ fs_nodes[p].kind = "Directory" /\ fs_nodes[p].is_open

=============================================================================
